---- MODULE Spec2Model ----
(***************************************************************************)
(* Model of the Socratic image generation repository: the language-model   *)
(* adapter and its prompt templating (src/model/language_model.py), the    *)
(* refinement loop started by src/model/run_model.py, and the evaluation   *)
(* harness (src/evaluation/evaluate.py).                                   *)
(*                                                                         *)
(* A text is a sequence of symbols.  A symbol is a single character or an  *)
(* indivisible word; the placeholder "<USER_PROMPT>" is the three symbols  *)
(* "<", "USER_PROMPT", ">", so that a placeholder can be assembled from    *)
(* pieces of different texts, as a substring can in Python.                *)
(***************************************************************************)
EXTENDS Integers, Sequences, FiniteSets, TLC

VARIABLES
    \* ---- template engine probe (get_language_prompt / get_similarity_prompt)
    tpl_fn,            \* which of the four builders is applied
    tpl_template,      \* self.template / self.similarity_template
    tpl_user_prompt,   \* argument user_prompt
    tpl_image_caption, \* argument image_caption
    tpl_previous,      \* argument previous_prompts
    tpl_out,           \* text handed to the backend (the user message's content)
    tpl_pc,            \* "input" | "built"
    \* ---- ChatGPT adapter
    token_usage,       \* self.token_usage
    lm_queries,        \* number of openai.ChatCompletion.create calls issued
    lm_billed,         \* sum of total_tokens of the backend calls that returned a usage count
    lm_returned,       \* sum of total_tokens of the queries that returned a value
    lm_call,           \* the last adapter call: operation, backend outcome, result
    lm_request,        \* the messages of the last backend call
    \* ---- refinement controller (one prompt)
    max_cycles,        \* --max_cycles
    terminate_on_similarity, \* --terminate_on_similarity
    cycle_index,
    current_prompt,
    history,           \* sequence of [prompt, image]
    terminated,
    termination_reason,
    disk_images,       \* image_{n}.png files written, in order
    prompt_log,        \* entries of prompts.csv: [tag, text]
    image,             \* image of the cycle in progress
    caption,           \* caption of the cycle in progress
    ctl_pc,            \* position of the loop
    ctl_user_prompt,   \* --prompt
    generated,         \* number of images the image generator returned
    rewrites,          \* number of generate_optimized_prompt calls made
    verdicts,          \* the similarity responses received, one per judged cycle
    \* ---- Evaluate.load_prompts
    lp_lines,          \* f.read().splitlines()
    lp_idx,            \* lines consumed so far
    lp_prompts,        \* prompts
    lp_pc,             \* "loop" | "returned" | "raised"
    \* ---- evaluation harness
    evaluation_method, \* --evaluation_method
    ev_via,            \* "main": the script is run; "class": the strategy class is used directly
    has_hyperparameters, \* hyperparameters.json is readable
    listing,           \* os.listdir(self.experiment_folder), with each entry's content
    ev_idx,            \* entries of the listing already handled
    result_dict,       \* self.result_dict
    ev_scored,         \* per folder handled: [prompt_id, image_ids scored]
    table,             \* the results table file: <<>> (absent) or <<rows>>
    table_writes,      \* number of times the table file was written
    ev_pc              \* "start" | "evaluate" | "evaluated" | "saved" | "raised" | "usage_error"

tplVars == <<tpl_fn, tpl_template, tpl_user_prompt, tpl_image_caption, tpl_previous,
             tpl_out, tpl_pc>>
lmVars  == <<token_usage, lm_queries, lm_billed, lm_returned, lm_call, lm_request>>
ctlVars == <<max_cycles, terminate_on_similarity, cycle_index, current_prompt, history,
             terminated, termination_reason, disk_images, prompt_log, image, caption,
             ctl_pc, ctl_user_prompt, generated, rewrites, verdicts>>
lpVars  == <<lp_lines, lp_idx, lp_prompts, lp_pc>>
evVars  == <<evaluation_method, ev_via, has_hyperparameters, listing, ev_idx, result_dict, ev_scored, table,
             table_writes, ev_pc>>
vars    == <<tplVars, lmVars, ctlVars, lpVars, evVars>>

-----------------------------------------------------------------------------
(* Bounds *)

MaxPieces == 3
MaxPrev == 2
MaxRespLen == 4
MaxTokens == 2
MaxCalls == 3
MaxCycles == 3
MaxLines == 3
MaxEntries == 2
MaxImages == 2

-----------------------------------------------------------------------------
(* Texts *)

RECURSIVE Concat(_)
Concat(ss) ==
    IF ss = <<>> THEN <<>> ELSE Head(ss) \o Concat(Tail(ss))

RECURSIVE SeqsUpTo(_, _)
SeqsUpTo(S, n) ==
    IF n = 0 THEN {<<>>}
    ELSE LET shorter == SeqsUpTo(S, n - 1)
         IN  shorter \cup {Append(s, x) : s \in shorter, x \in S}

\* Python: pat in s
Contains(s, pat) ==
    \E i \in 1..(Len(s) - Len(pat) + 1) : SubSeq(s, i, i + Len(pat) - 1) = pat

\* Python: s.startswith(pat)
StartsWith(s, pat) ==
    Len(s) >= Len(pat) /\ SubSeq(s, 1, Len(pat)) = pat

\* Python: s.replace(old, new), old not empty: the non-overlapping occurrences of
\* old, found from the left, are replaced
RECURSIVE Replace(_, _, _)
Replace(s, old, new) ==
    IF Len(s) < Len(old) THEN s
    ELSE IF SubSeq(s, 1, Len(old)) = old
         THEN new \o Replace(SubSeq(s, Len(old) + 1, Len(s)), old, new)
         ELSE <<Head(s)>> \o Replace(Tail(s), old, new)

USER_PROMPT == <<"<", "USER_PROMPT", ">">>
IMAGE_CAPTION == <<"<", "IMAGE_CAPTION", ">">>
PREVIOUS_PROMPTS == <<"<", "PREVIOUS_PROMPTS", ">">>
Yes == <<"Y", "e", "s">>

-----------------------------------------------------------------------------
(* Template engine: src/model/language_model.py *)

\* lines 104-106, 131-133, 189-191, 210-212
FillPrompt(template, user_prompt, image_caption) ==
    Replace(Replace(template, USER_PROMPT, user_prompt), IMAGE_CAPTION, image_caption)

\* LanguageModel.get_language_prompt.  The loop variable of line 111 is named
\* prompt too: after a non-empty loop, prompt is the last previous prompt, and
\* line 115 replaces the placeholder in that text.
LanguageModel_get_language_prompt(template, user_prompt, image_caption, previous_prompts) ==
    LET prompt == FillPrompt(template, user_prompt, image_caption)
    IN  IF Len(previous_prompts) > 0
        THEN LET previous_prompt == Concat(previous_prompts)
                 last == previous_prompts[Len(previous_prompts)]
             IN  Replace(last, PREVIOUS_PROMPTS, previous_prompt)
        ELSE prompt

\* LanguageModel.get_similarity_prompt
LanguageModel_get_similarity_prompt(similarity_template, user_prompt, image_caption) ==
    FillPrompt(similarity_template, user_prompt, image_caption)

\* mutant: the messages of the earlier request are kept and the new user message
\* is appended to them
ChatGPT_get_language_prompt_Kept(role, template, user_prompt, image_caption, previous_prompts) ==
    LET message == IF lm_request = <<>> THEN <<[role |-> "system", content |-> role]>>
                   ELSE lm_request
        prompt == FillPrompt(template, user_prompt, image_caption)
    IN  Append(message, [role |-> "user", content |-> prompt])

\* ChatGPT.get_language_prompt: previous_prompts is not read
ChatGPT_get_language_prompt(role, template, user_prompt, image_caption, previous_prompts) ==
    LET message == <<[role |-> "system", content |-> role]>>
        prompt == FillPrompt(template, user_prompt, image_caption)
    IN  Append(message, [role |-> "user", content |-> prompt])

\* ChatGPT.get_similarity_prompt
ChatGPT_get_similarity_prompt(role, similarity_template, user_prompt, image_caption) ==
    LET message == <<[role |-> "system", content |-> role]>>
        prompt == FillPrompt(similarity_template, user_prompt, image_caption)
    IN  Append(message, [role |-> "user", content |-> prompt])

\* the content of config/templates/model_role.txt, loaded once by ChatGPT.__init__
Role == <<"r">>

-----------------------------------------------------------------------------
(* Template engine probe: every builder applied to inputs from bounded sets *)

TplPieces == {USER_PROMPT, IMAGE_CAPTION, PREVIOUS_PROMPTS, <<"a">>, <<"<">>, <<">">>}

\* templates containing <USER_PROMPT> and <IMAGE_CAPTION>
Templates ==
    {t \in {Concat(ps) : ps \in SeqsUpTo(TplPieces, MaxPieces)} :
        Contains(t, USER_PROMPT) /\ Contains(t, IMAGE_CAPTION)}

TextPool ==
    {<<>>, <<"a">>, <<"a", "b">>, <<"IMAGE_CAPTION">>, USER_PROMPT, IMAGE_CAPTION}

PrevLists == SeqsUpTo({<<"p">>, <<"q">>}, MaxPrev)

TplFns == {"LanguageModel.get_language_prompt", "LanguageModel.get_similarity_prompt",
           "ChatGPT.get_language_prompt", "ChatGPT.get_similarity_prompt"}

TplIdle ==
    /\ tpl_fn = "none"
    /\ tpl_template = <<>>
    /\ tpl_user_prompt = <<>>
    /\ tpl_image_caption = <<>>
    /\ tpl_previous = <<>>
    /\ tpl_out = <<>>
    /\ tpl_pc = "idle"

TplInit ==
    /\ tpl_fn \in TplFns
    /\ tpl_template \in Templates
    /\ tpl_user_prompt \in TextPool
    /\ tpl_image_caption \in TextPool
    /\ tpl_previous \in PrevLists
    /\ tpl_out = <<>>
    /\ tpl_pc = "input"

TplBuilt(out) ==
    /\ tpl_out' = out
    /\ tpl_pc' = "built"
    /\ UNCHANGED <<tpl_fn, tpl_template, tpl_user_prompt, tpl_image_caption, tpl_previous>>
    /\ UNCHANGED <<lmVars, ctlVars, lpVars, evVars>>

TplBaseLanguage ==
    /\ tpl_pc = "input"
    /\ tpl_fn = "LanguageModel.get_language_prompt"
    /\ TplBuilt(LanguageModel_get_language_prompt(tpl_template, tpl_user_prompt,
                                                  tpl_image_caption, tpl_previous))

TplBaseSimilarity ==
    /\ tpl_pc = "input"
    /\ tpl_fn = "LanguageModel.get_similarity_prompt"
    /\ tpl_previous = <<>>
    /\ TplBuilt(LanguageModel_get_similarity_prompt(tpl_template, tpl_user_prompt,
                                                    tpl_image_caption))

TplChatLanguage ==
    /\ tpl_pc = "input"
    /\ tpl_fn = "ChatGPT.get_language_prompt"
    /\ TplBuilt(ChatGPT_get_language_prompt(Role, tpl_template, tpl_user_prompt,
                                            tpl_image_caption, tpl_previous)[2].content)

TplChatSimilarity ==
    /\ tpl_pc = "input"
    /\ tpl_fn = "ChatGPT.get_similarity_prompt"
    /\ tpl_previous = <<>>
    /\ TplBuilt(ChatGPT_get_similarity_prompt(Role, tpl_template, tpl_user_prompt,
                                              tpl_image_caption)[2].content)

TplNext == TplBaseLanguage \/ TplBaseSimilarity \/ TplChatLanguage \/ TplChatSimilarity


-----------------------------------------------------------------------------
(* Language model adapter: src/model/language_model.py *)

\* self.template and self.similarity_template, read once by LanguageModel.__init__
Template == <<"R", ":">> \o USER_PROMPT \o <<"|">> \o IMAGE_CAPTION \o <<"|">> \o PREVIOUS_PROMPTS
SimilarityTemplate == <<"S", ":">> \o USER_PROMPT \o <<"|">> \o IMAGE_CAPTION

\* What openai.ChatCompletion.create does with one request:
\*   "raise"      the call raises (transport or quota error)
\*   "no_usage"   it returns a response without ['usage']['total_tokens']
\*   "no_choices" it returns a usage count but no ['choices'][0]['message']['content']
\*   "ok"         it returns a usage count and a content
Outcome(kind, tokens, content) == [kind |-> kind, tokens |-> tokens, content |-> content]

OutcomesOver(contents) ==
    {Outcome("raise", 0, <<>>), Outcome("no_usage", 0, <<>>)}
    \cup {Outcome("no_choices", t, <<>>) : t \in 1..MaxTokens}
    \cup {Outcome("ok", t, c) : t \in 1..MaxTokens, c \in contents}

\* ChatGPT.__init__, line 169
InitialTokenUsage == 0

\* mutant: the counter is overwritten (=) instead of added to (+=)
QueryOverwritesUsage(usage, o) ==
    IF o.kind = "raise" \/ o.kind = "no_usage"
    THEN [raised |-> TRUE, token_usage |-> usage, text |-> <<>>, queries |-> 1]
    ELSE IF o.kind = "no_choices"
    THEN [raised |-> TRUE, token_usage |-> o.tokens, text |-> <<>>, queries |-> 1]
    ELSE [raised |-> FALSE, token_usage |-> o.tokens, text |-> o.content, queries |-> 1]

\* ChatGPT.query_language_model with self.token_usage = usage, the backend
\* answering with outcome o.  Line 227 raises, or line 231 raises before the
\* counter is written, or line 233 raises after it was.
ChatGPT_query_language_model(usage, o) ==
    IF o.kind = "raise" \/ o.kind = "no_usage"
    THEN [raised |-> TRUE, token_usage |-> usage, text |-> <<>>, queries |-> 1]
    ELSE IF o.kind = "no_choices"
    THEN [raised |-> TRUE, token_usage |-> usage + o.tokens, text |-> <<>>, queries |-> 1]
    ELSE [raised |-> FALSE, token_usage |-> usage + o.tokens, text |-> o.content,
          queries |-> 1]

\* mutant: only a response that starts with "Yes" counts
SimilarityVerdictPrefix(similarity_response) ==
    IF StartsWith(similarity_response, Yes) THEN 1 ELSE 0

\* mutant: the match ignores case
Upper(c) == IF c = "y" THEN "Y" ELSE IF c = "e" THEN "E" ELSE IF c = "s" THEN "S" ELSE c
SimilarityVerdictAnyCase(similarity_response) ==
    IF \E i \in 1..(Len(similarity_response) - 2) :
          /\ Upper(similarity_response[i]) = "Y"
          /\ Upper(similarity_response[i + 1]) = "E"
          /\ Upper(similarity_response[i + 2]) = "S"
    THEN 1 ELSE 0

\* line 56: 1 if "Yes" in similarity_response else 0
SimilarityVerdict(similarity_response) ==
    IF Contains(similarity_response, Yes) THEN 1 ELSE 0

\* LanguageModel.check_similarity on a ChatGPT instance.  result is <<>> when the
\* call raises and <<value>> when it returns value.
check_similarity(usage, o, user_prompt, image_caption) ==
    LET similarity_prompt ==
            ChatGPT_get_similarity_prompt(Role, SimilarityTemplate, user_prompt, image_caption)
        q == ChatGPT_query_language_model(usage, o)
    IN  [request |-> similarity_prompt, raised |-> q.raised, token_usage |-> q.token_usage,
         queries |-> q.queries,
         args |-> [user_prompt |-> user_prompt, image_caption |-> image_caption,
                   previous_prompts |-> <<>>],
         result |-> IF q.raised THEN <<>> ELSE <<SimilarityVerdict(q.text)>>]

\* LanguageModel.generate_optimized_prompt on a ChatGPT instance
generate_optimized_prompt(usage, o, user_prompt, image_caption, previous_prompts) ==
    LET LLM_prompt ==
            ChatGPT_get_language_prompt(Role, Template, user_prompt, image_caption,
                                        previous_prompts)
        q == ChatGPT_query_language_model(usage, o)
    IN  [request |-> LLM_prompt, raised |-> q.raised, token_usage |-> q.token_usage,
         queries |-> q.queries,
         args |-> [user_prompt |-> user_prompt, image_caption |-> image_caption,
                   previous_prompts |-> previous_prompts],
         result |-> IF q.raised THEN <<>> ELSE <<q.text>>]

NoCall == [op |-> "none", outcome |-> Outcome("raise", 0, <<>>), raised |-> FALSE,
           result |-> <<>>, queries |-> 0, usage_before |-> 0,
           args |-> [user_prompt |-> <<>>, image_caption |-> <<>>, previous_prompts |-> <<>>]]

LmInit ==
    /\ token_usage = InitialTokenUsage
    /\ lm_queries = 0
    /\ lm_billed = 0
    /\ lm_returned = 0
    /\ lm_call = NoCall
    /\ lm_request = <<>>

\* the adapter's state after call r (of operation op, backend outcome o)
LmAfter(op, o, r) ==
    /\ token_usage' = r.token_usage
    /\ lm_queries' = lm_queries + r.queries
    /\ lm_billed' = lm_billed + (IF o.kind \in {"ok", "no_choices"} THEN o.tokens ELSE 0)
    /\ lm_returned' = lm_returned + (IF o.kind = "ok" THEN o.tokens ELSE 0)
    /\ lm_call' = [op |-> op, outcome |-> o, raised |-> r.raised, result |-> r.result,
                   queries |-> r.queries, usage_before |-> token_usage, args |-> r.args]
    /\ lm_request' = r.request

(* A session of calls on one ChatGPT adapter *)

\* the adapter is driven by a session of its own: no other component is running
\* (the controller makes its adapter calls itself, in CtlJudge and CtlRewrite)
SessionOnly == tpl_pc = "idle" /\ ctl_pc = "idle" /\ lp_pc = "idle" /\ ev_pc = "idle"

LmPrompts == {<<"c", "a", "t">>, <<"d", "o", "g">>}
LmCaptions == {<<"a">>, <<"Y", "e", "s">>}
LmContents == {Yes, <<"N", "o">>, <<"a", " ", "d", "o", "g">>}
LmPrevLists == SeqsUpTo({<<"p">>}, 1)

LmCheckSimilarity ==
    /\ SessionOnly
    /\ \E user_prompt \in LmPrompts, image_caption \in LmCaptions, o \in OutcomesOver(LmContents) :
        /\ lm_queries < MaxCalls
        /\ LmAfter("check_similarity", o,
                   check_similarity(token_usage, o, user_prompt, image_caption))
        /\ UNCHANGED <<tplVars, ctlVars, lpVars, evVars>>

LmGenerateOptimizedPrompt ==
    /\ SessionOnly
    /\ \E user_prompt \in LmPrompts, image_caption \in LmCaptions, o \in OutcomesOver(LmContents),
       previous_prompts \in LmPrevLists :
        /\ lm_queries < MaxCalls
        /\ LmAfter("generate_optimized_prompt", o,
                   generate_optimized_prompt(token_usage, o, user_prompt, image_caption,
                                             previous_prompts))
        /\ UNCHANGED <<tplVars, ctlVars, lpVars, evVars>>

LmNext == LmCheckSimilarity \/ LmGenerateOptimizedPrompt

(* check_similarity on a fresh adapter, over every response up to MaxRespLen *)

RespAlphabet == {"Y", "e", "s", "y", "E", "S"}
AllResponses == SeqsUpTo(RespAlphabet, MaxRespLen)

SimCheckSimilarity ==
    /\ SessionOnly
    /\ lm_call.op = "none"
    /\ \E user_prompt \in LmPrompts, o \in OutcomesOver(AllResponses) :
        /\ LmAfter("check_similarity", o,
                   check_similarity(token_usage, o, user_prompt, <<"a">>))
        /\ UNCHANGED <<tplVars, ctlVars, lpVars, evVars>>

SimNext == SimCheckSimilarity


-----------------------------------------------------------------------------
(* Refinement controller.  src/model/run_model.py parses the arguments and   *)
(* hands them to Pipeline; the loop itself follows the specification's       *)
(* section 4.3.                                                              *)

\* run_model.py line 13: --max_cycles, default 5
DefaultMaxCycles == 5

\* run_model.py line 14: --terminate_on_similarity, default False, type=bool:
\* a given value v is bool(v), true for every non-empty string
TerminateArgs == {"absent", "", "True", "False"}
ParseTerminateOnSimilarity(arg) ==
    IF arg = "absent" THEN FALSE ELSE arg # ""

CtlCaptions == {<<"a">>, <<"b">>}
CtlContents == {Yes, <<"N", "o">>, <<"O", "h", " ", "Y", "e", "s">>}

\* the prompts of the history, in order
HistoryPrompts(h) == [i \in 1..Len(h) |-> h[i].prompt]

\* tag of the prompt-log entry of cycle n
LogTag(n) == IF n = 0 THEN "user_prompt" ELSE "optimized_prompt"

CtlInit ==
    /\ max_cycles \in (1..MaxCycles) \cup {DefaultMaxCycles}
    /\ \E arg \in TerminateArgs : terminate_on_similarity = ParseTerminateOnSimilarity(arg)
    /\ ctl_user_prompt \in LmPrompts
    /\ cycle_index = 0
    /\ current_prompt = ctl_user_prompt
    /\ history = <<>>
    /\ terminated = FALSE
    /\ termination_reason = "none"
    /\ disk_images = <<>>
    /\ prompt_log = <<>>
    /\ image = <<>>
    /\ caption = <<>>
    /\ ctl_pc = "generate"
    /\ generated = 0
    /\ rewrites = 0
    /\ verdicts = <<>>

CtlAbort ==
    /\ ctl_pc' = "aborted"
    /\ UNCHANGED <<max_cycles, terminate_on_similarity, cycle_index, current_prompt,
                   history, terminated, termination_reason, disk_images, prompt_log,
                   image, caption, ctl_user_prompt, generated, rewrites, verdicts>>

\* generate an image from current_prompt; the generator may fail
CtlGenerate ==
    /\ ctl_pc = "generate"
    /\ \/ /\ image' = <<[of |-> current_prompt, cycle |-> cycle_index]>>
          /\ generated' = generated + 1
          /\ ctl_pc' = "caption"
          /\ UNCHANGED <<max_cycles, terminate_on_similarity, cycle_index, current_prompt,
                         history, terminated, termination_reason, disk_images, prompt_log,
                         caption, ctl_user_prompt, rewrites, verdicts>>
       \/ CtlAbort
    /\ UNCHANGED <<tplVars, lmVars, lpVars, evVars>>

\* caption that image; the captioning model may fail
CtlCaption ==
    /\ ctl_pc = "caption"
    /\ \/ /\ caption' \in CtlCaptions
          /\ ctl_pc' = "persist"
          /\ UNCHANGED <<max_cycles, terminate_on_similarity, cycle_index, current_prompt,
                         history, terminated, termination_reason, disk_images, prompt_log,
                         image, ctl_user_prompt, generated, rewrites, verdicts>>
       \/ CtlAbort
    /\ UNCHANGED <<tplVars, lmVars, lpVars, evVars>>

\* mutant: the budget test is off by one
AfterPersistOffByOne(n) ==
    IF n = max_cycles THEN "done"
    ELSE IF terminate_on_similarity THEN "judge" ELSE "rewrite"

\* where the loop goes once the cycle's pair is persisted
AfterPersist(n) ==
    IF n + 1 = max_cycles THEN "done"
    ELSE IF terminate_on_similarity THEN "judge" ELSE "rewrite"

\* mutant: the image file is written and the prompt-log entry is not
CtlPersistTorn ==
    /\ ctl_pc = "persist"
    /\ history' = Append(history, [prompt |-> current_prompt, image |-> image[1]])
    /\ disk_images' = Append(disk_images, image[1])
    /\ ctl_pc' = AfterPersist(cycle_index)
    /\ terminated' = (AfterPersist(cycle_index) = "done")
    /\ termination_reason' =
          IF AfterPersist(cycle_index) = "done" THEN "budget_exhausted" ELSE termination_reason
    /\ UNCHANGED <<max_cycles, terminate_on_similarity, cycle_index, current_prompt,
                   image, caption, ctl_user_prompt, generated, rewrites, verdicts, prompt_log>>
    /\ UNCHANGED <<tplVars, lmVars, lpVars, evVars>>

\* append (prompt, image) to the history, write image_{cycle_index}.png and the
\* prompt-log entry, then test the cycle budget
CtlPersist ==
    /\ ctl_pc = "persist"
    /\ history' = Append(history, [prompt |-> current_prompt, image |-> image[1]])
    /\ disk_images' = Append(disk_images, image[1])
    /\ prompt_log' = Append(prompt_log, [tag |-> LogTag(cycle_index), text |-> current_prompt])
    /\ ctl_pc' = AfterPersist(cycle_index)
    /\ terminated' = (AfterPersist(cycle_index) = "done")
    /\ termination_reason' =
          IF AfterPersist(cycle_index) = "done" THEN "budget_exhausted" ELSE termination_reason
    /\ UNCHANGED <<max_cycles, terminate_on_similarity, cycle_index, current_prompt,
                   image, caption, ctl_user_prompt, generated, rewrites, verdicts>>
    /\ UNCHANGED <<tplVars, lmVars, lpVars, evVars>>

\* check_similarity(user_prompt, caption): true ends the loop
CtlJudge ==
    /\ ctl_pc = "judge"
    /\ \E o \in OutcomesOver(CtlContents) :
        LET r == check_similarity(token_usage, o, ctl_user_prompt, caption)
        IN  /\ LmAfter("check_similarity", o, r)
            /\ IF r.raised
               THEN CtlAbort
               ELSE /\ verdicts' = Append(verdicts, o.content)
                    /\ terminated' = (r.result[1] = 1)
                    /\ termination_reason' =
                          IF r.result[1] = 1 THEN "similarity_satisfied" ELSE termination_reason
                    /\ ctl_pc' = IF r.result[1] = 1 THEN "done" ELSE "rewrite"
                    /\ UNCHANGED <<max_cycles, terminate_on_similarity, cycle_index,
                                   current_prompt, history, disk_images, prompt_log, image,
                                   caption, ctl_user_prompt, generated, rewrites>>
    /\ UNCHANGED <<tplVars, lpVars, evVars>>

\* generate_optimized_prompt(user_prompt, caption, history.prompts) becomes the
\* current prompt of the next cycle
CtlRewrite ==
    /\ ctl_pc = "rewrite"
    /\ \E o \in OutcomesOver(CtlContents) :
        LET r == generate_optimized_prompt(token_usage, o, ctl_user_prompt, caption,
                                           HistoryPrompts(history))
        IN  /\ LmAfter("generate_optimized_prompt", o, r)
            /\ IF r.raised
               THEN CtlAbort
               ELSE /\ current_prompt' = r.result[1]
                    /\ cycle_index' = cycle_index + 1
                    /\ rewrites' = rewrites + 1
                    /\ ctl_pc' = "generate"
                    /\ UNCHANGED <<max_cycles, terminate_on_similarity, history, terminated,
                                   termination_reason, disk_images, prompt_log, image,
                                   caption, ctl_user_prompt, generated, verdicts>>
    /\ UNCHANGED <<tplVars, lpVars, evVars>>

CtlNext == CtlGenerate \/ CtlCaption \/ CtlPersist \/ CtlJudge \/ CtlRewrite

CtlIdle ==
    /\ max_cycles = 1
    /\ terminate_on_similarity = FALSE
    /\ ctl_user_prompt = <<>>
    /\ cycle_index = 0
    /\ current_prompt = <<>>
    /\ history = <<>>
    /\ terminated = FALSE
    /\ termination_reason = "none"
    /\ disk_images = <<>>
    /\ prompt_log = <<>>
    /\ image = <<>>
    /\ caption = <<>>
    /\ ctl_pc = "idle"
    /\ generated = 0
    /\ rewrites = 0
    /\ verdicts = <<>>


-----------------------------------------------------------------------------
(* Evaluate.load_prompts: src/evaluation/evaluate.py lines 31-45 *)

MaxOf(S) == CHOOSE x \in S : \A y \in S : y <= x

\* line 40: prompt_line.split("\t")[-1]
LastField(prompt_line) ==
    LET tabs == {i \in 1..Len(prompt_line) : prompt_line[i] = "\t"}
    IN  IF tabs = {} THEN prompt_line
        ELSE SubSeq(prompt_line, MaxOf(tabs) + 1, Len(prompt_line))

\* mutant: a line without a tag starts an entry of its own
LoadLineNewEntry(prompts, prompt_line) ==
    IF StartsWith(prompt_line, <<"optimized_prompt">>)
       \/ StartsWith(prompt_line, <<"user_prompt">>)
    THEN [raised |-> FALSE, prompts |-> Append(prompts, LastField(prompt_line))]
    ELSE [raised |-> FALSE, prompts |-> Append(prompts, prompt_line)]

\* lines 39-42, one pass of the loop: prompts[-1] raises IndexError on an empty list
LoadLine(prompts, prompt_line) ==
    IF StartsWith(prompt_line, <<"optimized_prompt">>)
       \/ StartsWith(prompt_line, <<"user_prompt">>)
    THEN [raised |-> FALSE, prompts |-> Append(prompts, LastField(prompt_line))]
    ELSE IF prompts = <<>>
    THEN [raised |-> TRUE, prompts |-> prompts]
    ELSE [raised |-> FALSE,
          prompts |-> [prompts EXCEPT ![Len(prompts)] = @ \o prompt_line]]

\* the whole function over the lines of prompts.csv
RECURSIVE LoadFrom(_, _)
LoadFrom(prompts, orig_prompts) ==
    IF orig_prompts = <<>> THEN [raised |-> FALSE, prompts |-> prompts]
    ELSE LET r == LoadLine(prompts, Head(orig_prompts))
         IN  IF r.raised THEN r ELSE LoadFrom(r.prompts, Tail(orig_prompts))

load_prompts(orig_prompts) == LoadFrom(<<>>, orig_prompts)

(* load_prompts, line by line, over every file of up to MaxLines lines *)

LinePool ==
    {<<"user_prompt", "\t", "a">>,
     <<"optimized_prompt", "\t", "b">>,
     <<"optimized_prompt", "\t", "a", "\t", "b">>,
     <<"user_prompt", "s">>,
     <<"c">>,
     <<"c", "\t", "d">>,
     <<>>}

LpInit ==
    /\ lp_lines \in SeqsUpTo(LinePool, MaxLines)
    /\ lp_idx = 0
    /\ lp_prompts = <<>>
    /\ lp_pc = "loop"

LpIdle ==
    /\ lp_lines = <<>>
    /\ lp_idx = 0
    /\ lp_prompts = <<>>
    /\ lp_pc = "idle"

\* one pass of the for loop of line 38
LpLine ==
    /\ lp_pc = "loop"
    /\ lp_idx < Len(lp_lines)
    /\ LET r == LoadLine(lp_prompts, lp_lines[lp_idx + 1])
       IN  /\ lp_prompts' = r.prompts
           /\ lp_pc' = IF r.raised THEN "raised" ELSE "loop"
           /\ lp_idx' = IF r.raised THEN lp_idx ELSE lp_idx + 1
    /\ UNCHANGED lp_lines
    /\ UNCHANGED <<tplVars, lmVars, ctlVars, evVars>>

\* line 45
LpReturn ==
    /\ lp_pc = "loop"
    /\ lp_idx = Len(lp_lines)
    /\ lp_pc' = "returned"
    /\ UNCHANGED <<lp_lines, lp_idx, lp_prompts>>
    /\ UNCHANGED <<tplVars, lmVars, ctlVars, evVars>>

LpNext == LpLine \/ LpReturn


-----------------------------------------------------------------------------
(* Evaluation harness: src/evaluation/evaluate.py *)

Repeat(x, n) == [i \in 1..n |-> x]
\* list(range(n))
RangeList(n) == [i \in 1..n |-> i - 1]

\* an entry of the experiment folder: a plain file, or a prompt folder with its
\* prompts.csv (when it has one) and the set of n with an image_{n}.png
FileEntry == [isdir |-> FALSE, name |-> "hyperparameters.json", has_csv |-> FALSE,
              lines |-> <<>>, images |-> {}]

Folder(name, has_csv, lines, images) ==
    [isdir |-> TRUE, name |-> name, has_csv |-> has_csv, lines |-> lines, images |-> images]

\* a prompt log of k tagged lines, as the controller writes it
CsvOf(k) ==
    [i \in 1..k |-> IF i = 1 THEN <<"user_prompt", "\t", "a">>
                    ELSE <<"optimized_prompt", "\t", "b">>]

CsvPool ==
    {CsvOf(k) : k \in 0..MaxImages}
    \cup {<<<<"user_prompt", "\t", "a">>, <<"c">>>>, <<<<"c">>>>}

FolderNames == {"0", "1"}

EntryPool ==
    {FileEntry, Folder("logs", FALSE, <<>>, {})}
    \cup {Folder(n, TRUE, c, 0..(m - 1)) : n \in FolderNames, c \in CsvPool, m \in 0..MaxImages}

DistinctNames(l) == \A i, j \in 1..Len(l) : i # j => l[i].name # l[j].name

Listings == {l \in SeqsUpTo(EntryPool, MaxEntries) : DistinctNames(l)}

\* int(prompt_folder.split("/")[-1]) raises ValueError on any other name
IsNumeric(name) == name \in {"0", "1"}
PromptId(name) == IF name = "0" THEN 0 ELSE 1

EmptyResultDict ==
    [prompt_id |-> <<>>, image_id |-> <<>>, score |-> <<>>, user_prompt |-> <<>>,
     optimized_prompt |-> <<>>, image_path |-> <<>>]

\* os.path.join(prompt_folder, f"image_{image_idx}.png")
ImagePath(name, image_idx) == [folder |-> name, image_idx |-> image_idx]

Raised(rd, line) == [raised |-> TRUE, at |-> line, result_dict |-> rd, scored |-> {}]

\* lines 118-123 and 194-199: the six columns extended for one folder of k prompts
Extended(rd, name, prompts, scores) ==
    LET k == Len(prompts)
    IN  [prompt_id |-> rd.prompt_id \o Repeat(PromptId(name), k),
         image_id |-> rd.image_id \o RangeList(k),
         score |-> rd.score \o scores,
         user_prompt |-> rd.user_prompt \o Repeat(prompts[1], k),
         optimized_prompt |-> rd.optimized_prompt \o prompts,
         image_path |-> rd.image_path \o [i \in 1..k |-> ImagePath(name, i - 1)]]

\* line 115: del ... images ...  The name images is bound nowhere in
\* CLIPScore.evaluate (lines 107-109 are comments), so the statement raises
\* UnboundLocalError.
DelImagesRaises == TRUE

\* CLIPScore.evaluate, the loop body (lines 93-123) for one folder
ClipFolder(entry, rd) ==
    LET lp == load_prompts(entry.lines)
        prompts == lp.prompts
        k == Len(prompts)
        scores == [i \in 1..k |-> [kind |-> "clip", folder |-> entry.name, image_idx |-> i - 1]]
    IN  IF ~entry.has_csv \/ lp.raised THEN Raised(rd, 96)
        ELSE IF k = 0 THEN Raised(rd, 100)
        ELSE IF ~((0..(k - 1)) \subseteq entry.images) THEN Raised(rd, 105)
        ELSE IF DelImagesRaises THEN Raised(rd, 115)
        ELSE IF ~IsNumeric(entry.name) THEN Raised(rd, 118)
        ELSE [raised |-> FALSE, at |-> 123,
              result_dict |-> Extended(rd, entry.name, prompts, scores),
              scored |-> 0..(k - 1)]

\* line 188 reads self.image_similarity, which ImageSimilarity never sets
HasImageSimilarityAttribute == FALSE

\* ImageSimilarity.evaluate, the loop body (lines 176-199) for one folder.
\* torch.stack of an empty list raises: in encode_images (line 82) for no image,
\* at line 188 for a single image.
DriftFolder(entry, rd) ==
    LET lp == load_prompts(entry.lines)
        prompts == lp.prompts
        k == Len(prompts)
        scores == [i \in 1..(k - 1) |-> [kind |-> "cos", folder |-> entry.name, image_idx |-> i]]
    IN  IF ~entry.has_csv \/ lp.raised THEN Raised(rd, 179)
        ELSE IF ~((0..(k - 1)) \subseteq entry.images) THEN Raised(rd, 183)
        ELSE IF k = 0 THEN Raised(rd, 184)
        ELSE IF k = 1 THEN Raised(rd, 188)
        ELSE IF ~HasImageSimilarityAttribute THEN Raised(rd, 188)
        ELSE IF ~IsNumeric(entry.name) THEN Raised(rd, 194)
        ELSE [raised |-> FALSE, at |-> 199,
              result_dict |-> Extended(rd, entry.name, prompts, scores),
              scored |-> 1..(k - 1)]

\* save_results (lines 136-141, 201-206): pd.DataFrame.from_dict raises ValueError
\* when the columns differ in length; otherwise the table has one row per index
SaveResults(rd) ==
    LET n == Len(rd.prompt_id)
    IN  IF \E c \in DOMAIN rd : Len(rd[c]) # n
        THEN [raised |-> TRUE, rows |-> <<>>]
        ELSE [raised |-> FALSE,
              rows |-> [i \in 1..n |-> [c \in DOMAIN rd |-> rd[c][i]]]]

\* argparse, line 213: choices=["clipscore"]
MethodChoices == {"clipscore"}

\* mutant: the table is written from inside the loop over the folders
SaveEnabledInLoop == ev_pc = "evaluate"

\* lines 223-224: save_results() runs once evaluate() has returned
SaveEnabled == ev_pc = "evaluate" /\ ev_idx = Len(listing)

EvInit ==
    /\ evaluation_method \in {"clipscore", "image_similarity"}
    /\ ev_via \in {"main", "class"}
    /\ has_hyperparameters \in BOOLEAN
    /\ listing \in Listings
    /\ ev_idx = 0
    /\ result_dict = EmptyResultDict
    /\ ev_scored = <<>>
    /\ table = <<>>
    /\ table_writes = 0
    /\ ev_pc = "start"

EvIdle ==
    /\ evaluation_method = "clipscore"
    /\ ev_via = "main"
    /\ has_hyperparameters = TRUE
    /\ listing = <<>>
    /\ ev_idx = 0
    /\ result_dict = EmptyResultDict
    /\ ev_scored = <<>>
    /\ table = <<>>
    /\ table_writes = 0
    /\ ev_pc = "idle"

\* lines 211-219: the arguments are parsed and the strategy is constructed;
\* Evaluate.__init__ reads hyperparameters.json
EvStart ==
    /\ ev_pc = "start"
    /\ ev_pc' = IF ev_via = "main" /\ evaluation_method \notin MethodChoices THEN "usage_error"
                ELSE IF ~has_hyperparameters THEN "raised"
                ELSE "evaluate"
    /\ UNCHANGED <<evaluation_method, ev_via, has_hyperparameters, listing, ev_idx,
                   result_dict, ev_scored, table, table_writes>>
    /\ UNCHANGED <<tplVars, lmVars, ctlVars, lpVars>>

\* one pass of the loop over os.listdir, with the loop body r of the strategy
EvPass(entry, r) ==
    /\ IF ~entry.isdir
       THEN /\ ev_idx' = ev_idx + 1
            /\ UNCHANGED <<result_dict, ev_scored, ev_pc>>
       ELSE IF r.raised
       THEN /\ ev_pc' = "raised"
            /\ UNCHANGED <<result_dict, ev_scored, ev_idx>>
       ELSE /\ result_dict' = r.result_dict
            /\ ev_scored' = Append(ev_scored, [name |-> entry.name, image_ids |-> r.scored])
            /\ ev_idx' = ev_idx + 1
            /\ UNCHANGED ev_pc
    /\ UNCHANGED <<evaluation_method, ev_via, has_hyperparameters, listing, table,
                   table_writes>>
    /\ UNCHANGED <<tplVars, lmVars, ctlVars, lpVars>>

ClipEvaluate ==
    /\ ev_pc = "evaluate"
    /\ evaluation_method = "clipscore"
    /\ ev_idx < Len(listing)
    /\ EvPass(listing[ev_idx + 1], ClipFolder(listing[ev_idx + 1], result_dict))

DriftEvaluate ==
    /\ ev_pc = "evaluate"
    /\ evaluation_method = "image_similarity"
    /\ ev_idx < Len(listing)
    /\ EvPass(listing[ev_idx + 1], DriftFolder(listing[ev_idx + 1], result_dict))

\* evaluation.save_results()
EvSave ==
    /\ SaveEnabled
    /\ LET r == SaveResults(result_dict)
       IN  IF r.raised
           THEN /\ ev_pc' = "raised"
                /\ UNCHANGED <<table, table_writes>>
           ELSE /\ table' = <<r.rows>>
                /\ table_writes' = table_writes + 1
                /\ ev_pc' = "saved"
    /\ UNCHANGED <<evaluation_method, ev_via, has_hyperparameters, listing, ev_idx,
                   result_dict, ev_scored>>
    /\ UNCHANGED <<tplVars, lmVars, ctlVars, lpVars>>

EvNext == EvStart \/ ClipEvaluate \/ DriftEvaluate \/ EvSave

-----------------------------------------------------------------------------
(* Specifications *)

\* the template builders, each applied once to inputs from bounded sets
TplSpecInit == TplInit /\ LmInit /\ CtlIdle /\ LpIdle /\ EvIdle
SpecTpl == TplSpecInit /\ [][TplNext]_vars

\* a session of calls on one ChatGPT adapter
LmSpecInit == TplIdle /\ LmInit /\ CtlIdle /\ LpIdle /\ EvIdle
SpecLM == LmSpecInit /\ [][LmNext]_vars

\* check_similarity on a fresh adapter over every response
SpecSim == LmSpecInit /\ [][SimNext]_vars

\* the refinement loop for one prompt
CtlSpecInit == TplIdle /\ LmInit /\ CtlInit /\ LpIdle /\ EvIdle
SpecCtl == CtlSpecInit /\ [][CtlNext]_vars

\* load_prompts over every file
LpSpecInit == TplIdle /\ LmInit /\ CtlIdle /\ LpInit /\ EvIdle
SpecLoad == LpSpecInit /\ [][LpNext]_vars

\* one run of the evaluation harness
EvSpecInit == TplIdle /\ LmInit /\ CtlIdle /\ LpIdle /\ EvInit
SpecEval == EvSpecInit /\ [][EvNext]_vars

Init == TplSpecInit \/ LmSpecInit \/ CtlSpecInit \/ LpSpecInit \/ EvSpecInit
Next == TplNext \/ LmNext \/ CtlNext \/ LpNext \/ EvNext
Spec == Init /\ [][Next]_vars


-----------------------------------------------------------------------------
(* Claims *)

\* the response has the characters Y, e, s next to each other, in this order
HasYes(response) ==
    \E i \in 1..Len(response) :
        /\ i + 2 <= Len(response)
        /\ response[i] = "Y" /\ response[i + 1] = "e" /\ response[i + 2] = "s"

\* C1: with early termination disabled, a run that ends has persisted exactly
\* max_cycles images and max_cycles prompt-log entries, the first tagged
\* user_prompt and the others optimized_prompt; cycle_index never exceeds
\* max_cycles - 1 and the image of cycle 0 comes from the unmodified user prompt.
C1_CycleCount ==
    /\ cycle_index <= max_cycles - 1
    /\ Len(disk_images) >= 1 => disk_images[1].of = ctl_user_prompt
    /\ (ctl_pc = "done" /\ ~terminate_on_similarity) =>
          /\ termination_reason = "budget_exhausted"
          /\ Len(disk_images) = max_cycles
          /\ Len(prompt_log) = max_cycles
          /\ prompt_log[1].tag = "user_prompt"
          /\ \A i \in 2..max_cycles : prompt_log[i].tag = "optimized_prompt"

C1_Witness ==
    /\ ctl_pc = "done"
    /\ ~terminate_on_similarity
    /\ max_cycles = 3
    /\ Len(disk_images) = 3

\* C2: with the early-termination policy enabled, the first similarity response
\* holding "Yes", received at cycle i (the j-th judgment, j = i + 1, i < N - 1),
\* ends the run there: exactly i + 1 images and prompt-log entries, reason
\* similarity_satisfied, i rewrites, i + 1 image generations, and nothing comes
\* after it.
C2_EarlyTermination ==
    \A j \in 1..Len(verdicts) :
        HasYes(verdicts[j]) =>
            /\ terminate_on_similarity
            /\ j = Len(verdicts)
            /\ ctl_pc = "done"
            /\ terminated
            /\ termination_reason = "similarity_satisfied"
            /\ cycle_index = j - 1
            /\ j - 1 < max_cycles - 1
            /\ Len(disk_images) = j
            /\ Len(prompt_log) = j
            /\ generated = j
            /\ rewrites = j - 1

C2_Witness ==
    /\ Len(verdicts) = 2
    /\ HasYes(verdicts[2])
    /\ ~HasYes(verdicts[1])
    /\ termination_reason = "similarity_satisfied"
    /\ Len(disk_images) = 2

RECURSIVE Substituted(_, _, _, _)
Substituted(t, up, ic, prev) ==
    IF t = <<>> THEN <<>>
    ELSE IF StartsWith(t, USER_PROMPT)
    THEN up \o Substituted(SubSeq(t, 4, Len(t)), up, ic, prev)
    ELSE IF StartsWith(t, IMAGE_CAPTION)
    THEN ic \o Substituted(SubSeq(t, 4, Len(t)), up, ic, prev)
    ELSE IF StartsWith(t, PREVIOUS_PROMPTS) /\ prev # <<>>
    THEN Concat(prev) \o Substituted(SubSeq(t, 4, Len(t)), up, ic, prev)
    ELSE <<Head(t)>> \o Substituted(Tail(t), up, ic, prev)

\* C4: the text built by each of the four builders is the template with the
\* replacement text at each former placeholder, no <USER_PROMPT> or
\* <IMAGE_CAPTION> is left, and <PREVIOUS_PROMPTS> is left only when the
\* previous-prompt list is empty.
C4_Substitution ==
    tpl_pc = "built" =>
        /\ tpl_out = Substituted(tpl_template, tpl_user_prompt, tpl_image_caption,
                                 tpl_previous)
        /\ ~Contains(tpl_out, USER_PROMPT)
        /\ ~Contains(tpl_out, IMAGE_CAPTION)
        /\ Contains(tpl_out, PREVIOUS_PROMPTS) => tpl_previous = <<>>


\* C5: check_similarity issues exactly one backend query; when the backend
\* answers with a text, the call returns without raising, and its result is 1
\* (true) exactly when the text holds "Yes" and 0 (false) otherwise.
C5_YesSubstring ==
    lm_call.op = "check_similarity" =>
        /\ lm_call.queries = 1
        /\ lm_queries = 1
        /\ lm_call.outcome.kind = "ok" =>
              /\ ~lm_call.raised
              /\ lm_call.result = <<IF HasYes(lm_call.outcome.content) THEN 1 ELSE 0>>

C5_Witness ==
    /\ lm_call.op = "check_similarity"
    /\ lm_call.outcome.content = <<"y", "Y", "e", "s">>
    /\ lm_call.result = <<1>>
    /\ lm_queries = 1

\* a physical line that starts with one of the two tags
Tagged(line) == line # <<>> /\ line[1] \in {"user_prompt", "optimized_prompt"}
TaggedLines(lines) == {i \in 1..Len(lines) : Tagged(lines[i])}

\* the j-th tagged line's last field, followed by the lines up to the next tagged line
ExpectedEntry(lines, j) ==
    LET idx == TaggedLines(lines)
        a == CHOOSE i \in idx : Cardinality({x \in idx : x <= i}) = j
        later == {x \in idx : x > a}
        b == IF later = {} THEN Len(lines) + 1
             ELSE CHOOSE x \in later : \A y \in later : x <= y
    IN  LastField(lines[a]) \o Concat(SubSeq(lines, a + 1, b - 1))

\* C6 as stated: over any prompts.csv, load_prompts returns as many entries as
\* there are physical lines starting with one of the two tags.
C6_AnyFile ==
    lp_pc \in {"returned", "raised"} =>
        /\ lp_pc = "returned"
        /\ Len(lp_prompts) = Cardinality(TaggedLines(lp_lines))

\* C6, amended: over a prompts.csv that is empty or whose first line starts with
\* a tag, load_prompts returns one entry per tagged line, each followed, without
\* a separator, by the untagged lines after it; it raises only when the first
\* line has no tag.
C6_Continuation ==
    /\ lp_pc = "returned" =>
          /\ Len(lp_prompts) = Cardinality(TaggedLines(lp_lines))
          /\ \A j \in 1..Len(lp_prompts) : lp_prompts[j] = ExpectedEntry(lp_lines, j)
    /\ lp_pc = "raised" => (lp_lines # <<>> /\ ~Tagged(lp_lines[1]) /\ lp_idx = 0)
    /\ (lp_lines # <<>> /\ ~Tagged(lp_lines[1])) => lp_pc # "returned"

C6_Witness ==
    /\ lp_pc = "returned"
    /\ Len(lp_lines) = 3
    /\ Tagged(lp_lines[1])
    /\ lp_lines[2] = <<"c">>
    /\ ~Tagged(lp_lines[3])
    /\ Len(lp_prompts) = 1

\* a prompt folder holding k >= 1 prompt-log entries and the images 0..k-1
WellFormed(entry) ==
    entry.isdir =>
        /\ IsNumeric(entry.name)
        /\ entry.has_csv
        /\ ~load_prompts(entry.lines).raised
        /\ Len(load_prompts(entry.lines).prompts) >= 1
        /\ entry.images = 0..(Len(load_prompts(entry.lines).prompts) - 1)

WellFormedExperiment ==
    has_hyperparameters /\ \A i \in 1..Len(listing) : WellFormed(listing[i])

\* the (prompt_id, image_id) pairs of the experiment's images
ImagePairs ==
    UNION {{<<PromptId(listing[i].name), n>> : n \in listing[i].images} :
              i \in {x \in 1..Len(listing) : listing[x].isdir}}

\* C7: over a well-formed experiment the alignment strategy ends with a table of
\* one row per image of every folder, (prompt_id, image_id) with image_id in
\* 0..k_p-1, each row's image_path an existing file of that folder.
C7_RowCount ==
    (evaluation_method = "clipscore" /\ WellFormedExperiment /\ ev_pc \in {"saved", "raised"}) =>
        /\ ev_pc = "saved"
        /\ table # <<>>
        /\ Len(table[1]) = Cardinality(ImagePairs)
        /\ {<<table[1][r].prompt_id, table[1][r].image_id>> : r \in 1..Len(table[1])}
              = ImagePairs
        /\ \A r \in 1..Len(table[1]) :
              \E i \in 1..Len(listing) :
                  /\ listing[i].isdir
                  /\ listing[i].name = table[1][r].image_path.folder
                  /\ table[1][r].image_path.image_idx \in listing[i].images

\* C8: the table is written at most once, only by a run that scanned every entry
\* of the experiment folder, and exactly once by such a run; a run that failed
\* has written no table.
C8_SingleFinalWrite ==
    /\ table_writes <= 1
    /\ table_writes = 1 <=> ev_pc = "saved"
    /\ table_writes = 0 <=> table = <<>>
    /\ ev_pc = "saved" => ev_idx = Len(listing)
    /\ ev_idx < Len(listing) => table = <<>>
    /\ ev_pc = "raised" => (table_writes = 0 /\ table = <<>>)

C8_Witness ==
    /\ ev_pc = "raised"
    /\ ev_idx = 1
    /\ Len(listing) = 2
    /\ listing[2].isdir
    /\ WellFormedExperiment
    /\ table = <<>>

\* C9: over a well-formed experiment the drift strategy handles every folder of
\* k images by scoring exactly the images 1..k-1, and the six columns of the
\* accumulator stay equally long, one row per scored image.
C9_DriftScores ==
    (evaluation_method = "image_similarity" /\ ev_via = "class" /\ WellFormedExperiment
     /\ ev_pc \in {"evaluate", "saved", "raised"}) =>
        /\ ev_pc # "raised"
        /\ \A c \in DOMAIN result_dict : Len(result_dict[c]) = Len(result_dict.score)
        /\ \A j \in 1..Len(ev_scored) :
              \E i \in 1..Len(listing) :
                  /\ listing[i].name = ev_scored[j].name
                  /\ ev_scored[j].image_ids = listing[i].images \ {0}

\* C10 as stated: token_usage is the sum of the token counts of the queries that
\* returned, and a query that raises leaves the counter unchanged.
C10_RaiseLeavesCounter ==
    /\ token_usage = lm_returned
    /\ (lm_call.op # "none" /\ lm_call.raised) => token_usage = lm_call.usage_before

\* C10, amended: token_usage starts at 0 and is the sum of the token counts of
\* the backend calls that returned a usage count.  A query whose backend call
\* raises or whose response has no usage count leaves the counter unchanged; a
\* query whose response has a usage count adds it, also when reading the content
\* then raises; a query that raises returns no value; the result of a call
\* depends on the response's content alone.
C10_TokenUsage ==
    /\ lm_call.op = "none" => token_usage = 0
    /\ token_usage = lm_billed
    /\ lm_call.op # "none" =>
          /\ lm_call.outcome.kind \in {"raise", "no_usage"} =>
                (lm_call.raised /\ lm_call.result = <<>>
                 /\ token_usage = lm_call.usage_before)
          /\ lm_call.outcome.kind = "no_choices" =>
                (lm_call.raised /\ lm_call.result = <<>>
                 /\ token_usage = lm_call.usage_before + lm_call.outcome.tokens)
          /\ lm_call.outcome.kind = "ok" =>
                /\ ~lm_call.raised
                /\ token_usage = lm_call.usage_before + lm_call.outcome.tokens
                /\ lm_call.op = "check_similarity" =>
                      lm_call.result = <<IF HasYes(lm_call.outcome.content) THEN 1 ELSE 0>>
                /\ lm_call.op = "generate_optimized_prompt" =>
                      lm_call.result = <<lm_call.outcome.content>>

C10_Witness ==
    /\ lm_queries = 3
    /\ lm_call.outcome.kind = "no_choices"
    /\ lm_call.usage_before = 3
    /\ token_usage = 5
    /\ lm_returned = 3


\* the template of the operation of an adapter call
TemplateOf(op) == IF op = "check_similarity" THEN SimilarityTemplate ELSE Template

\* C11: the request of every adapter call is exactly two messages, the system
\* message with the role text and then the user message with the template of
\* the operation filled with this call's user prompt and image caption; it is
\* the same whatever calls and responses came before, and previous prompts add
\* no message.
C11_FreshTwoMessages ==
    lm_call.op # "none" =>
        /\ Len(lm_request) = 2
        /\ lm_request[1] = [role |-> "system", content |-> Role]
        /\ lm_request[2].role = "user"
        /\ lm_request[2].content =
              Substituted(TemplateOf(lm_call.op), lm_call.args.user_prompt,
                          lm_call.args.image_caption, <<>>)
        /\ \A i \in 1..Len(lm_request) :
              \A j \in 1..Len(lm_call.args.previous_prompts) :
                  lm_request[i].content # lm_call.args.previous_prompts[j]

C11_Witness ==
    /\ lm_queries = 3
    /\ token_usage > 0
    /\ lm_call.op = "generate_optimized_prompt"
    /\ lm_call.args.previous_prompts # <<>>
    /\ Len(lm_request) = 2
    /\ lm_request[2].role = "user"


====
